---- MODULE Spec2Model ----
(***************************************************************************)
(* Model of scripts/build_colt.py, the Colt build launcher.                *)
(*                                                                         *)
(* The script is a straight-line program: it reports and normalises the    *)
(* working directory, calls generate_project(), runs `cmake --build build` *)
(* through os.system and reports the outcome through input() prompts and   *)
(* the process exit code.                                                  *)
(*                                                                         *)
(* Two executions of the script, launched from the same directory, run     *)
(* side by side so that executions can be compared with each other.        *)
(* Everything an execution does to the outside world (writes to standard   *)
(* output, chdir, the generator call and its return, the child process and *)
(* its exit, reads of standard input, process exit) is appended to its     *)
(* trace.                                                                  *)
(***************************************************************************)
EXTENDS Integers, Sequences, FiniteSets, TLC

\* ------------------------------------------------------------------ bounds
\* Directories are at most MaxDepth segments below the root.
MaxDepth == 2
\* The generator returns -1..MaxStatus, the child exits with 0..MaxStatus.
MaxStatus == 2

Runs == {1, 2}
SegNames == {"repo", "scripts", "myscripts"}
Dirs == UNION {[1..n -> SegNames] : n \in 0..MaxDepth}
GenRets == -1..MaxStatus
ExitCodes == 0..MaxStatus

\* ---------------------------------------------------------- pure functions
\* os.getcwd(): the absolute path of a directory, "/" for the root and no
\* trailing separator otherwise.
RECURSIVE JoinPath(_)
JoinPath(d) ==
    IF d = <<>> THEN ""
    ELSE JoinPath(SubSeq(d, 1, Len(d) - 1)) \o "/" \o d[Len(d)]

getcwd(d) == IF d = <<>> THEN "/" ELSE JoinPath(d)

\* str.endswith
endswith(s, suf) ==
    /\ Len(s) >= Len(suf)
    /\ SubSeq(s, Len(s) - Len(suf) + 1, Len(s)) = suf

\* The directory os.chdir("..") moves to: the parent, the root being its own.
ParentDir(d) == IF d = <<>> THEN <<>> ELSE SubSeq(d, 1, Len(d) - 1)

\* The condition of the `if` of line 6.
InScripts(d) == endswith(getcwd(d), "scripts") \/ endswith(getcwd(d), "scripts/")

\* print(*args): the arguments separated by one space, then a newline.
RECURSIVE JoinArgs(_)
JoinArgs(args) ==
    IF Len(args) = 0 THEN ""
    ELSE IF Len(args) = 1 THEN args[1]
    ELSE args[1] \o " " \o JoinArgs(Tail(args))

py_print(args) == JoinArgs(args) \o "\n"

\* os.system on POSIX returns the wait status: the exit code in the high byte.
WaitStatus(code) == code * 256

CwdBanner == "-- Current working directory: "
ChangedLine == "-- Changed working directory to the parent directory"
SuccessLine == "\n-- CMake built successfully"
ContinuePrompt == "Press enter to continue..."
AbortPrompt == "-- ABORTED: Press enter to continue..."
BuildCommand == "cmake --build build"

\* ------------------------------------------------------------------- state
VARIABLES
    start,   \* the directory both executions are launched from
    cwd,     \* cwd[r]: the working directory of execution r
    pc,      \* pc[r]: the line execution r is at
    trace    \* trace[r]: the external events of execution r so far

vars == <<start, cwd, pc, trace>>

Event(ev, arg) == [ev |-> ev, arg |-> arg]

Emit(r, ev, arg) == trace' = [trace EXCEPT ![r] = Append(@, Event(ev, arg))]

Goto(r, line) == pc' = [pc EXCEPT ![r] = line]

Init ==
    /\ start \in Dirs
    /\ cwd = [r \in Runs |-> start]
    /\ pc = [r \in Runs |-> "L5"]
    /\ trace = [r \in Runs |-> <<>>]

\* ----------------------------------------------------------------- actions
\* Line 5: print("-- Current working directory: ", os.getcwd())
L5(r) ==
    /\ pc[r] = "L5"
    /\ Emit(r, "write", py_print(<<CwdBanner, getcwd(cwd[r])>>))
    /\ Goto(r, "L6")
    /\ UNCHANGED <<start, cwd>>

\* Variant of L6 without the directory fix-up: the script goes on where it is.
L6_NoFixup(r) ==
    /\ pc[r] = "L6"
    /\ Goto(r, "L10")
    /\ UNCHANGED <<start, cwd, trace>>

\* Line 6: if os.getcwd().endswith("scripts") or os.getcwd().endswith("scripts/")
L6(r) ==
    /\ pc[r] = "L6"
    /\ Goto(r, IF InScripts(cwd[r]) THEN "L7" ELSE "L10")
    /\ UNCHANGED <<start, cwd, trace>>

\* Line 7: os.chdir("..")
L7(r) ==
    /\ pc[r] = "L7"
    /\ cwd' = [cwd EXCEPT ![r] = ParentDir(@)]
    /\ Emit(r, "chdir", ParentDir(cwd[r]))
    /\ Goto(r, "L8")
    /\ UNCHANGED start

\* Variant of L8 that does not announce the change.
L8_Silent(r) ==
    /\ pc[r] = "L8"
    /\ Goto(r, "L10")
    /\ UNCHANGED <<start, cwd, trace>>

\* Line 8: print("-- Changed working directory to the parent directory")
L8(r) ==
    /\ pc[r] = "L8"
    /\ Emit(r, "write", py_print(<<ChangedLine>>))
    /\ Goto(r, "L10")
    /\ UNCHANGED <<start, cwd>>

\* Line 10: from generate_project import generate_project
L10(r) ==
    /\ pc[r] = "L10"
    /\ Goto(r, "L12")
    /\ UNCHANGED <<start, cwd, trace>>

\* Line 12: generate_project() is called, in the current working directory.
L12Call(r) ==
    /\ pc[r] = "L12"
    /\ Emit(r, "gen_call", cwd[r])
    /\ Goto(r, "L12_call")
    /\ UNCHANGED <<start, cwd>>

\* Variant of L12Return that calls the generator again after a failure.
L12Return_Retry(r, v) ==
    /\ pc[r] = "L12_call"
    /\ Emit(r, "gen_ret", v)
    /\ Goto(r, IF v = 0 THEN "L13" ELSE "L12")
    /\ UNCHANGED <<start, cwd>>

\* Variant of L12Return with the test inverted (`if generate_project():`).
L12Return_Inverted(r, v) ==
    /\ pc[r] = "L12_call"
    /\ Emit(r, "gen_ret", v)
    /\ Goto(r, IF v # 0 THEN "L13" ELSE "L20")
    /\ UNCHANGED <<start, cwd>>

\* Line 12: generate_project() returns v; if (v == 0) ... else (line 19) ...
L12Return(r, v) ==
    /\ pc[r] = "L12_call"
    /\ Emit(r, "gen_ret", v)
    /\ Goto(r, IF v = 0 THEN "L13" ELSE "L20")
    /\ UNCHANGED <<start, cwd>>

\* Line 13: os.system("cmake --build build") spawns the child, which inherits
\* the working directory, and waits for it.
L13Spawn(r) ==
    /\ pc[r] = "L13"
    /\ Emit(r, "spawn", <<BuildCommand, cwd[r]>>)
    /\ Goto(r, "L13_wait")
    /\ UNCHANGED <<start, cwd>>

\* Variant of L13Exit that ignores the status os.system returns.
L13Exit_IgnoreStatus(r, code) ==
    /\ pc[r] = "L13_wait"
    /\ Emit(r, "child_exit", code)
    /\ Goto(r, "L14")
    /\ UNCHANGED <<start, cwd>>

\* Line 13: the child exits with `code`; if (os.system(...) == 0) ... else (line 16) ...
L13Exit(r, code) ==
    /\ pc[r] = "L13_wait"
    /\ Emit(r, "child_exit", code)
    /\ Goto(r, IF WaitStatus(code) = 0 THEN "L14" ELSE "L17")
    /\ UNCHANGED <<start, cwd>>

\* Variant of L14 that goes on to the prompt without the success message.
L14_NoMessage(r) ==
    /\ pc[r] = "L14"
    /\ Goto(r, "L15")
    /\ UNCHANGED <<start, cwd, trace>>

\* Line 14: print("\n-- CMake built successfully")
L14(r) ==
    /\ pc[r] = "L14"
    /\ Emit(r, "write", py_print(<<SuccessLine>>))
    /\ Goto(r, "L15")
    /\ UNCHANGED <<start, cwd>>

\* input(prompt), first half: the prompt is written, then the call blocks.
InputPrompt(r, prompt) == Emit(r, "write", prompt)

\* input(prompt), second half: the user's line is read and the call returns.
InputReturn(r) == Emit(r, "read", "")

\* The interpreter ends the process with exit code `code`.
Exit(r, code) == Emit(r, "exit", code) /\ Goto(r, "done")

\* Line 15: input("Press enter to continue...")
L15Prompt(r) ==
    /\ pc[r] = "L15"
    /\ InputPrompt(r, ContinuePrompt)
    /\ Goto(r, "L15_read")
    /\ UNCHANGED <<start, cwd>>

L15Read(r) ==
    /\ pc[r] = "L15_read"
    /\ InputReturn(r)
    /\ Goto(r, "EOF")
    /\ UNCHANGED <<start, cwd>>

\* The end of the script is reached: the process ends normally, with code 0.
EndOfScript(r) ==
    /\ pc[r] = "EOF"
    /\ Exit(r, 0)
    /\ UNCHANGED <<start, cwd>>

\* Variant of L17Prompt with a prompt of its own for a failed build.
L17Prompt_OwnMessage(r) ==
    /\ pc[r] = "L17"
    /\ InputPrompt(r, "-- BUILD FAILED: Press enter to continue...")
    /\ Goto(r, "L17_read")
    /\ UNCHANGED <<start, cwd>>

\* Line 17: input("-- ABORTED: Press enter to continue...")
L17Prompt(r) ==
    /\ pc[r] = "L17"
    /\ InputPrompt(r, AbortPrompt)
    /\ Goto(r, "L17_read")
    /\ UNCHANGED <<start, cwd>>

L17Read(r) ==
    /\ pc[r] = "L17_read"
    /\ InputReturn(r)
    /\ Goto(r, "L18")
    /\ UNCHANGED <<start, cwd>>

\* Variant of L18 that moves back to the starting directory before exiting.
L18_RestoreCwd(r) ==
    /\ pc[r] = "L18"
    /\ cwd' = [cwd EXCEPT ![r] = start]
    /\ Exit(r, 1)
    /\ UNCHANGED start

\* Line 18: exit(1)
L18(r) ==
    /\ pc[r] = "L18"
    /\ Exit(r, 1)
    /\ UNCHANGED <<start, cwd>>

\* Variant of L20Prompt that writes the abort notice and does not wait.
L20Prompt_NoWait(r) ==
    /\ pc[r] = "L20"
    /\ Emit(r, "write", AbortPrompt)
    /\ Goto(r, "L21")
    /\ UNCHANGED <<start, cwd>>

\* Line 20: input("-- ABORTED: Press enter to continue...")
L20Prompt(r) ==
    /\ pc[r] = "L20"
    /\ InputPrompt(r, AbortPrompt)
    /\ Goto(r, "L20_read")
    /\ UNCHANGED <<start, cwd>>

L20Read(r) ==
    /\ pc[r] = "L20_read"
    /\ InputReturn(r)
    /\ Goto(r, "L21")
    /\ UNCHANGED <<start, cwd>>

\* Line 21: exit(1)
L21(r) ==
    /\ pc[r] = "L21"
    /\ Exit(r, 1)
    /\ UNCHANGED <<start, cwd>>

Step(r) ==
    \/ L5(r)
    \/ L6(r)
    \/ L7(r)
    \/ L8(r)
    \/ L10(r)
    \/ L12Call(r)
    \/ \E v \in GenRets : L12Return(r, v)
    \/ L13Spawn(r)
    \/ \E code \in ExitCodes : L13Exit(r, code)
    \/ L14(r)
    \/ L15Prompt(r)
    \/ L15Read(r)
    \/ EndOfScript(r)
    \/ L17Prompt(r)
    \/ L17Read(r)
    \/ L18(r)
    \/ L20Prompt(r)
    \/ L20Read(r)
    \/ L21(r)

Next == \E r \in Runs : Step(r)

Spec == Init /\ [][Next]_vars

\* The generator call, the child process and the read of standard input each
\* return, and the interpreter runs every statement it reaches.
LiveSpec == Spec /\ \A r \in Runs : WF_vars(Step(r))

\* ------------------------------------------------------------ observations
Events(r, ev) == SelectSeq(trace[r], LAMBDA e : e.ev = ev)

Count(r, ev) == Len(Events(r, ev))

Args(r, ev) == [i \in 1..Count(r, ev) |-> Events(r, ev)[i].arg]

\* What execution r has written to standard output.
Out(r) == Args(r, "write")

Done(r) == pc[r] = "done"

\* Step 1 (lines 5-8) has decided and, where it applies, changed the directory.
StepOneDone(r) == pc[r] \notin {"L5", "L6", "L7"}

\* The name of a directory: its final path segment ("" for the root).
DirName(d) == IF d = <<>> THEN "" ELSE d[Len(d)]

GenFailed(r) == \E i \in 1..Count(r, "gen_ret") : Args(r, "gen_ret")[i] # 0

BuildFailed(r) == \E i \in 1..Count(r, "child_exit") : Args(r, "child_exit")[i] # 0

BothSucceeded(r) == Args(r, "gen_ret") = <<0>> /\ Args(r, "child_exit") = <<0>>

ExitCode(r) == Args(r, "exit")[1]

Range(f) == {f[i] : i \in DOMAIN f}

\* The position in trace[r] of the first event ev with argument arg, 0 if none.
Pos(r, ev, arg) ==
    LET hits == {i \in 1..Len(trace[r]) : trace[r][i].ev = ev /\ trace[r][i].arg = arg}
    IN  IF hits = {} THEN 0 ELSE CHOOSE i \in hits : \A j \in hits : i <= j

\* The position in trace[r] of the first event ev, 0 if none.
FirstPos(r, ev) ==
    LET hits == {i \in 1..Len(trace[r]) : trace[r][i].ev = ev}
    IN  IF hits = {} THEN 0 ELSE CHOOSE i \in hits : \A j \in hits : i <= j

\* The position in trace[r] of the first failing step (a non-zero generator
\* return or child exit), 0 if none.
FailPos(r) ==
    LET hits == {i \in 1..Len(trace[r]) :
                    trace[r][i].ev \in {"gen_ret", "child_exit"} /\ trace[r][i].arg # 0}
    IN  IF hits = {} THEN 0 ELSE CHOOSE i \in hits : \A j \in hits : i <= j

\* The working directory an external step (generator call, child) ran in.
RanIn(e) == IF e.ev = "spawn" THEN e.arg[2] ELSE e.arg

AbortTail == <<Event("write", AbortPrompt), Event("read", ""), Event("exit", 1)>>

SuccessText == py_print(<<SuccessLine>>)
ChangedText == py_print(<<ChangedLine>>)
TerminalSuccess == <<SuccessText, ContinuePrompt>>
TerminalAbort == <<AbortPrompt>>
TerminalPairs == {TerminalSuccess, TerminalAbort}

\* ------------------------------------------------------------------ claims
\* C1: after step 1 the working directory is the parent of the starting
\* directory when the starting directory's final segment is exactly
\* "scripts", and the starting directory itself in every other case
\* (a final segment that merely ends in "scripts" included).
C1_DirectoryNormalization ==
    \A r \in Runs :
        StepOneDone(r) =>
            cwd[r] = IF DirName(start) = "scripts" THEN ParentDir(start) ELSE start

\* C2: when the generator returns a non-zero status the build tool is never
\* spawned, and the process ends with exit code 1.
C2_NoBuildAfterGenFailure ==
    \A r \in Runs :
        GenFailed(r) =>
            /\ Count(r, "spawn") = 0
            /\ Done(r) => Args(r, "exit") = <<1>>

C2_Witness == \E r \in Runs : GenFailed(r) /\ Done(r)

\* C3: the exit code is 0 exactly when the generator returned 0 and the
\* build tool then exited with status 0; in every other run it is 1.
C3_ExitCode ==
    \A r \in Runs :
        Done(r) =>
            /\ Count(r, "exit") = 1
            /\ ExitCode(r) \in {0, 1}
            /\ ExitCode(r) = 0 <=> BothSucceeded(r)

C3_Witness ==
    /\ \E r \in Runs :
        /\ Done(r)
        /\ Args(r, "gen_ret") = <<0>>
        /\ Args(r, "child_exit") = <<MaxStatus>>
        /\ ExitCode(r) = 1
    /\ \E r \in Runs : Done(r) /\ ExitCode(r) = 0

\* C4: when the generator and the build both succeed, the success message is
\* written before the press-enter prompt is issued and before standard input
\* is read, the process then ends with exit code 0, and the abort message is
\* never written.
C4_SuccessPath ==
    \A r \in Runs :
        BothSucceeded(r) =>
            /\ AbortPrompt \notin Range(Out(r))
            /\ Pos(r, "write", ContinuePrompt) > 0 =>
                   /\ Pos(r, "write", SuccessText) > 0
                   /\ Pos(r, "write", SuccessText) < Pos(r, "write", ContinuePrompt)
            /\ FirstPos(r, "read") > 0 =>
                   /\ Pos(r, "write", ContinuePrompt) > 0
                   /\ Pos(r, "write", ContinuePrompt) < FirstPos(r, "read")
            /\ Done(r) =>
                   /\ Args(r, "exit") = <<0>>
                   /\ Count(r, "read") = 1
                   /\ FirstPos(r, "read") < FirstPos(r, "exit")

C4_Witness ==
    \E r \in Runs : BothSucceeded(r) /\ Done(r) /\ SuccessText \in Range(Out(r))

\* C5: two finished executions from the same starting directory, one whose
\* generator failed and one whose generator succeeded and whose build failed,
\* wrote the same output, ending in the abort prompt, blocked on the same
\* single acknowledgment and ended with the same exit code 1; neither wrote
\* the success message.
C5_FailuresAlike ==
    \A r1, r2 \in Runs :
        (Done(r1) /\ Done(r2) /\ GenFailed(r1) /\ ~GenFailed(r2) /\ BuildFailed(r2)) =>
            /\ Out(r1) = Out(r2)
            /\ Out(r1)[Len(Out(r1))] = AbortPrompt
            /\ Count(r1, "read") = 1 /\ Count(r2, "read") = 1
            /\ Args(r1, "exit") = <<1>> /\ Args(r2, "exit") = <<1>>
            /\ SuccessText \notin Range(Out(r1)) \cup Range(Out(r2))

C5_Witness ==
    \E r1, r2 \in Runs :
        /\ Done(r1) /\ Done(r2)
        /\ GenFailed(r1) /\ ~GenFailed(r2) /\ BuildFailed(r2)
        /\ cwd[r1] # start

\* C6, as claimed: the output of a finished execution is at most one
\* directory-change line followed by exactly one terminal pair and nothing
\* else, the directory-change line being written exactly when step 1 changed
\* the working directory.
C6_ConsoleProtocol_AsClaimed ==
    \A r \in Runs :
        Done(r) =>
            /\ Out(r) \in {pre \o term : pre \in {<<>>, <<ChangedText>>}, term \in TerminalPairs}
            /\ ChangedText \in Range(Out(r)) <=> cwd[r] # start

\* C6, amended: the output of a finished execution is the line reporting the
\* starting working directory, then at most one directory-change line, then
\* exactly one terminal pair and nothing else, the directory-change line
\* being written exactly when step 1 changed the working directory.
C6_ConsoleProtocol ==
    \A r \in Runs :
        Done(r) =>
            /\ Out(r) \in {<<py_print(<<CwdBanner, getcwd(start)>>)>> \o pre \o term :
                              pre \in {<<>>, <<ChangedText>>}, term \in TerminalPairs}
            /\ ChangedText \in Range(Out(r)) <=> cwd[r] # start

C6_Witness ==
    /\ \E r \in Runs : Done(r) /\ cwd[r] # start /\ BothSucceeded(r)
    /\ \E r \in Runs : Done(r) /\ GenFailed(r)

\* C7: the steps run in a fixed order.  Every generator call and every spawn
\* of the build tool comes after step 1 (no chdir and no directory-change
\* line follows it), the build tool is spawned only after the generator has
\* been called and has returned, and both run in the normalised working
\* directory: the one the launcher is in from then on, which is the parent of
\* the starting directory when that one is named "scripts".
C7_StepOrder ==
    \A r \in Runs :
        /\ \A i \in 1..Len(trace[r]) :
            trace[r][i].ev \in {"gen_call", "spawn"} =>
                /\ StepOneDone(r)
                /\ \A j \in i..Len(trace[r]) :
                       /\ trace[r][j].ev # "chdir"
                       /\ trace[r][j].ev = "write" => trace[r][j].arg # ChangedText
                /\ RanIn(trace[r][i]) = cwd[r]
                /\ DirName(start) = "scripts" => RanIn(trace[r][i]) = ParentDir(start)
                /\ DirName(start) = "scripts" => FirstPos(r, "chdir") \in 1..(i - 1)
        /\ FirstPos(r, "spawn") > 0 =>
               /\ FirstPos(r, "gen_call") > 0
               /\ FirstPos(r, "gen_call") < FirstPos(r, "gen_ret")
               /\ FirstPos(r, "gen_ret") < FirstPos(r, "spawn")

C7_Witness ==
    \E r \in Runs :
        /\ DirName(start) = "scripts"
        /\ Count(r, "gen_call") = 1
        /\ Count(r, "spawn") = 1
        /\ cwd[r] = ParentDir(start)

\* C8: the working directory changes at most once per execution and only in
\* step 1 (line 7); no later step changes it.
C8_CwdFrame ==
    [][\A r \in Runs :
          cwd'[r] # cwd[r] => (pc[r] = "L7" /\ Count(r, "chdir") = 0)]_vars

C8_Witness ==
    /\ \E r \in Runs : Done(r) /\ cwd[r] # start /\ Count(r, "chdir") = 1 /\ BuildFailed(r)
    /\ \E r \in Runs : Done(r) /\ BothSucceeded(r)

\* C9: the generator is called exactly once in a finished execution (never
\* more than once), the build tool is spawned at most once, and after the
\* first failing step nothing follows but the abort prompt, the read of the
\* acknowledgment and the exit with code 1.
C9_NoRetry ==
    \A r \in Runs :
        /\ Count(r, "gen_call") <= 1
        /\ Count(r, "spawn") <= 1
        /\ Done(r) => Count(r, "gen_call") = 1
        /\ FailPos(r) > 0 =>
               /\ Len(trace[r]) - FailPos(r) <= Len(AbortTail)
               /\ \A k \in 1..(Len(trace[r]) - FailPos(r)) :
                      /\ trace[r][FailPos(r) + k].ev = AbortTail[k].ev
                      /\ trace[r][FailPos(r) + k].arg = AbortTail[k].arg
               /\ Done(r) => Len(trace[r]) - FailPos(r) = Len(AbortTail)

C9_Witness ==
    /\ \E r \in Runs : Done(r) /\ BuildFailed(r)
    /\ \E r \in Runs : Done(r) /\ GenFailed(r)

\* C10: every execution terminates, with exit code 0 or 1, having read
\* exactly one acknowledgment, and that read is the last thing it does before
\* it exits.
C10_Termination ==
    /\ <>(\A r \in Runs : Done(r))
    /\ [](\A r \in Runs :
            Done(r) =>
                /\ Count(r, "exit") = 1
                /\ ExitCode(r) \in {0, 1}
                /\ Count(r, "read") = 1
                /\ trace[r][Len(trace[r])].ev = "exit"
                /\ trace[r][Len(trace[r]) - 1].ev = "read")

C10_Witness ==
    /\ \A r \in Runs : Done(r)
    /\ \E r \in Runs : ExitCode(r) = 0
    /\ \E r \in Runs : GenFailed(r)

====
